---- MODULE Spec2Model ----
(***************************************************************************)
(* Healthcare Analytics API (src/app.py): the upload handler               *)
(* DataUpload.post and the anomaly handler Anomalies.get, over the         *)
(* document container and the upload folder they share.                    *)
(*                                                                         *)
(* The server answers requests concurrently and the handlers hold no lock, *)
(* so a handler is a sequence of steps, one per access to the folder or to *)
(* the container, and the steps of the handlers in flight interleave.      *)
(*                                                                         *)
(* Numbers read from a CSV cell are kept in tenths (450 is 45.0, 1205 is   *)
(* 120.5), so that the integer conversion of the schema is a real          *)
(* truncation.  Row and call indexes are 1-based (the code's are 0-based). *)
(***************************************************************************)
EXTENDS Integers, Sequences, FiniteSets

VARIABLES
    container,  \* PatientData container: the documents, in the order stored
    uploads,    \* names of the files now in UPLOAD_FOLDER
    h           \* the handlers: per worker, the request it answers and how far it is

vars == <<container, uploads, h>>

----------------------------------------------------------------------------
\* Bounds of the model.

\* most rows in an uploaded file
MaxRows == 2
\* most files the upload folder holds
MaxFiles == 2
\* most requests answered at one time
MaxHandlers == 2
\* most documents the container holds
MaxDocs == 2

----------------------------------------------------------------------------
\* Cells of a parsed CSV file (pandas.read_csv): text, a number, or NaN for an
\* empty cell.

Str(s) == [t |-> "str", s |-> s, n |-> 0]
Num(n) == [t |-> "num", s |-> "", n |-> n]
NaN == [t |-> "nan", s |-> "", n |-> 0]

T1 == "2024-01-01T00:00:00Z"
T2 == "2024-01-02T00:00:00Z"

\* marshmallow's ISO-8601 parse of a timestamp string: the day it names, or -1
\* when the text is no ISO date-time.
IsoDay(s) ==
    CASE s = T1 -> 1
      [] s = T2 -> 2
      [] OTHER -> -1

\* int(x) of a number held in tenths: truncation toward zero.
ToInt(n) == IF n >= 0 THEN n \div 10 ELSE -((-n) \div 10)

----------------------------------------------------------------------------
\* PatientDataSchema.

AgeMin == 0
AgeMax == 120

SchemaFields == {"patient_id", "age", "disease", "timestamp"}
RequiredFields == {"patient_id", "disease", "timestamp"}

\* validate.Range(min=0, max=120), applied to the deserialized integer.
AgeInRange(i) == AgeMin <= i /\ i <= AgeMax

\* Variant of AgeOk: an empty age cell passes as if the field were absent.
AgeOkOrNaN(cell) == cell.t = "nan" \/ (cell.t = "num" /\ AgeInRange(ToInt(cell.n)))

\* fields.Integer (not strict): any number castable by int(); NaN is not.
AgeOk(cell) == cell.t = "num" /\ AgeInRange(ToInt(cell.n))

\* One field of a row against its declaration in the schema.
FieldOk(f, cell) ==
    CASE f = "patient_id" -> cell.t = "str"
      [] f = "disease" -> cell.t = "str"
      [] f = "timestamp" -> cell.t = "str" /\ IsoDay(cell.s) >= 0
      [] f = "age" -> AgeOk(cell)
      [] OTHER -> FALSE

\* The fields of one row that schema.load reports: required and missing,
\* unknown, or invalid.
RowErrors(row) ==
    (RequiredFields \ DOMAIN row)
        \cup (DOMAIN row \ SchemaFields)
        \cup {f \in DOMAIN row \cap SchemaFields : ~FieldOk(f, row[f])}

\* schema.load(records) with many=True: the indexes of the rows in error.
ValidationErrors(rows) == {i \in 1..Len(rows) : RowErrors(rows[i]) # {}}

\* Variant of LoadFails: the validation error is swallowed.
LoadFailsNever(errors) == FALSE

\* The try/except around schema.load: any row in error fails the batch.
LoadFails(errors) == errors # {}


----------------------------------------------------------------------------
\* Requests.

\* File names are spelled as sequences of characters.
CsvSuffix == <<".", "c", "s", "v">>

\* Variant of EndsWith: the suffix is compared without its dot.
EndsWithSansDot(name, suffix) ==
    /\ Len(name) >= Len(suffix) - 1
    /\ SubSeq(name, Len(name) - Len(suffix) + 2, Len(name)) = Tail(suffix)

\* name.endswith(suffix)
EndsWith(name, suffix) ==
    /\ Len(name) >= Len(suffix)
    /\ SubSeq(name, Len(name) - Len(suffix) + 1, Len(name)) = suffix

FileNames ==
    { <<"d", ".", "c", "s", "v">>,
      <<"d", ".", "t", "x", "t">>,
      <<"d", ".", "C", "S", "V">>,
      <<"c", "s", "v">> }

Row(p, a, d, t) == [patient_id |-> p, age |-> a, disease |-> d, timestamp |-> t]

\* The same row in a file that has no age column.
NoAge(row) == [f \in DOMAIN row \ {"age"} |-> row[f]]

GoodRows ==
    { Row(Str("p1"), Num(450), Str("flu"), Str(T1)),
      Row(Str("p1"), Num(450), Str("flu"), Str(T2)),
      Row(Str("p2"), Num(450), Str("flu"), Str(T1)) }

\* A good row with an age above the range.
TooOld == Row(Str("p1"), Num(1210), Str("flu"), Str(T1))

\* One cell of a good row changed: a fractional age that truncates into the
\* range, and an empty or unparseable cell per field.
OddRows ==
    { Row(Str("p1"), Num(1205), Str("flu"), Str(T1)),
      Row(Str("p1"), NaN, Str("flu"), Str(T1)),
      Row(Str("p1"), Num(450), NaN, Str(T1)),
      Row(Str("p1"), Num(450), Str("flu"), Str("yesterday")),
      Row(NaN, Num(450), Str("flu"), Str(T1)) }

SampleRows == GoodRows \cup {TooOld}

RECURSIVE SeqsUpTo(_, _)
SeqsUpTo(S, n) ==
    IF n = 0 THEN {<<>>}
    ELSE LET shorter == SeqsUpTo(S, n - 1)
         IN shorter \cup {Append(q, x) : q \in {p \in shorter : Len(p) = n - 1}, x \in S}

\* An uploaded file: zero bytes (empty), or a header line and rows.
EmptyFile == [empty |-> TRUE, rows |-> <<>>]
Table(rows) == [empty |-> FALSE, rows |-> rows]

\* The files posted: every table of sample rows, and one-row tables of the
\* odd rows and of a good row less its age column.
Contents ==
    {EmptyFile}
        \cup {Table(rows) : rows \in SeqsUpTo(SampleRows, MaxRows)}
        \cup {Table(<<r>>) : r \in OddRows}
        \cup {Table(<<NoAge(Row(Str("p1"), Num(450), Str("flu"), Str(T1)))>>)}

UploadRequest(jwt, hasFile, filename, content) ==
    [op |-> "upload", jwt |-> jwt, hasFile |-> hasFile, filename |-> filename,
     content |-> content, now |-> 0]

OneRow == Table(<<Row(Str("p1"), Num(450), Str("flu"), Str(T1))>>)

\* Requests to /data/upload: every content under an accepted name with a
\* token; the rejected shapes (no token, no file, other names) over one
\* content each.
UploadRequests ==
    {UploadRequest(TRUE, TRUE, <<"d", ".", "c", "s", "v">>, c) : c \in Contents}
        \cup {UploadRequest(TRUE, TRUE, f, OneRow) : f \in FileNames}
        \cup {UploadRequest(TRUE, FALSE, <<>>, EmptyFile)}
        \cup {UploadRequest(FALSE, TRUE, <<"d", ".", "c", "s", "v">>, OneRow)}

NoReq ==
    [op |-> "none", jwt |-> FALSE, hasFile |-> FALSE, filename |-> <<>>,
     content |-> EmptyFile, now |-> 0]

Response(status, error, records, errors, anomalies) ==
    [status |-> status, error |-> error, records |-> records, errors |-> errors,
     anomalies |-> anomalies]

NoResp == Response(0, "", 0, {}, <<>>)

----------------------------------------------------------------------------
\* A handler: the request a worker answers, the locals of the handler and the
\* statement it has reached.
\*   pc     "idle"       no request
\*          "saved"      DataUpload.post after file.save(filepath)
\*          "validated"  after schema.load
\*          "sink"       in the loop over the rows, k calls made
\*          "done"       returned: resp is the response, stage the exit taken
\*   fault  the upsert_item call that raised (0: none did)
\*   items, predictions  the query result and the scores of Anomalies.get
\*   again  this run is the same upload posted again after a 200
\*   quiet  no other handler has stored a document since the upload, in its
\*          first run, entered the loop
\*   base   the container when a second run started (kept while quiet)

Handlers == 1..MaxHandlers

Idle ==
    [pc |-> "idle", req |-> NoReq, file |-> 0, k |-> 0, fault |-> 0,
     resp |-> NoResp, stage |-> "idle", items |-> <<>>, predictions |-> <<>>,
     again |-> FALSE, quiet |-> TRUE, base |-> <<>>]

\* return ..., status
Returned(s, response, exit) ==
    [s EXCEPT !.pc = "done", !.resp = response, !.stage = exit]

InFlight(s) == s.pc \in {"saved", "validated", "sink"}

\* The worker that takes the next request: the first that is idle.
FreeWorker(t) ==
    /\ h[t].pc = "idle"
    /\ \A u \in Handlers : u < t => h[u].pc # "idle"

----------------------------------------------------------------------------
\* DataUpload.post.

\* f"{uuid.uuid4()}.csv": a name no file of the folder has.
TempNames == 1..MaxFiles
Fresh(files) ==
    CHOOSE f \in TempNames \ files : \A g \in TempNames \ files : f <= g

\* Whether the handler gets as far as file.save(filepath).
Saves(r) == r.jwt /\ r.hasFile /\ EndsWith(r.filename, CsvSuffix)

\* jwt_required, the two checks of the request, and file.save: the handler s
\* given request r, and the folder.
Enter(s, r, files) ==
    IF ~r.jwt
    THEN [h |-> Returned([s EXCEPT !.req = r],
                         Response(401, "Missing Authorization Header", 0, {}, <<>>), "jwt"),
          uploads |-> files]
    ELSE IF ~r.hasFile
    THEN [h |-> Returned([s EXCEPT !.req = r],
                         Response(400, "No file provided", 0, {}, <<>>), "nofile"),
          uploads |-> files]
    ELSE IF ~EndsWith(r.filename, CsvSuffix)
    THEN [h |-> Returned([s EXCEPT !.req = r],
                         Response(400, "Only CSV files are supported", 0, {}, <<>>), "badname"),
          uploads |-> files]
    ELSE [h |-> [s EXCEPT !.req = r, !.pc = "saved", !.file = Fresh(files)],
          uploads |-> files \cup {Fresh(files)}]

\* pd.read_csv(filepath) and schema.load: the handler after them.  A file of
\* zero bytes raises EmptyDataError, which the outer except answers.
Load(s) ==
    LET rows == s.req.content.rows
        errors == ValidationErrors(rows)
    IN  IF s.req.content.empty
        THEN Returned(s, Response(500, "EmptyDataError", 0, {}, <<>>), "read")
        ELSE IF LoadFails(errors)
        THEN Returned(s, Response(400, "Data validation failed", 0, errors, <<>>), "validate")
        ELSE [s EXCEPT !.pc = "validated"]

\* Variant of DropNa: dropna().dropDuplicates(['patient_id']), which keeps the
\* first row of each patient_id.
DropNaDistinct(rows) ==
    LET full == SelectSeq(rows, LAMBDA r : \A f \in DOMAIN r : r[f].t # "nan")
        first(i) == \A j \in 1..(i - 1) : full[j].patient_id # full[i].patient_id
        keep[i \in 0..Len(full)] ==
            IF i = 0 THEN <<>>
            ELSE IF first(i) THEN Append(keep[i - 1], full[i]) ELSE keep[i - 1]
    IN  keep[Len(full)]

\* spark_df.dropna(): the rows with no empty cell.
DropNa(rows) == SelectSeq(rows, LAMBDA r : \A f \in DOMAIN r : r[f].t # "nan")

\* spark.createDataFrame(df) on a frame with no rows: the default conversion
\* raises "can not infer schema from empty dataset", the Arrow conversion
\* does not (inferEmpty).
CreateFails(rows, inferEmpty) == rows = <<>> /\ ~inferEmpty

\* spark.createDataFrame(df) and dropna(): the handler after them.
Transform(s, inferEmpty) ==
    IF CreateFails(s.req.content.rows, inferEmpty)
    THEN Returned(s, Response(500, "can not infer schema from empty dataset", 0, {}, <<>>),
                  "spark")
    ELSE [s EXCEPT !.pc = "sink"]

\* spark_df.toPandas().to_dict('records'): the rows the loop goes over.
Out(s) == DropNa(s.req.content.rows)

\* The rows the handler has called upsert_item with.
Calls(s) == SubSeq(Out(s), 1, s.k)

\* container.upsert_item(row) that returns.  The row has no 'id', the field
\* by which the store tells an item from another, so no stored document is
\* replaced: the document is added under a generated id.  (A call that is
\* refused for the missing id raises, as any call may: see Write.)
UpsertItem(docs, row) == Append(docs, row)

\* Variant of Raised: the exception is caught inside the loop, which goes on
\* with the next row.
RaisedGoesOn(s) == [s EXCEPT !.k = @ + 1, !.fault = s.k + 1]

\* upsert_item raises at call k+1: the outer except returns 500.
Raised(s) ==
    Returned([s EXCEPT !.k = @ + 1, !.fault = s.k + 1],
             Response(500, "CosmosHttpResponseError", 0, {}, <<>>), "sink")

\* 'records': len(df), the rows read from the file.
RecordCount(rows) == Len(rows)

----------------------------------------------------------------------------
\* Anomalies.get.

\* input_shape=(10,): the number of features the classifier takes.
InputDim == 10
\* timedelta(days=7)
RecentDays == 7
\* predictions > 0.5, in tenths
Threshold == 5

AnomalyRequest(jwt, now) ==
    [op |-> "anomalies", jwt |-> jwt, hasFile |-> FALSE, filename |-> <<>>,
     content |-> EmptyFile, now |-> now]

\* datetime.utcnow(), as a day: the query's bound falls before, between and
\* after the two days a timestamp names.
AnomalyRequests ==
    {AnomalyRequest(TRUE, RecentDays + d) : d \in 0..IsoDay(T2)}
        \cup {AnomalyRequest(FALSE, RecentDays)}

\* The classifier's outputs for the documents of a query, in tenths.
Scores == {[i \in 1..MaxDocs |-> x] : x \in {Threshold, Threshold + 1}}

RECURSIVE ByDayDesc(_, _)
ByDayDesc(docs, day) ==
    IF day < 0 THEN <<>>
    ELSE SelectSeq(docs, LAMBDA d : IsoDay(d.timestamp.s) = day) \o ByDayDesc(docs, day - 1)

\* SELECT * FROM c WHERE c.timestamp > @recent ORDER BY c.timestamp DESC
QueryRecent(docs, recent) ==
    ByDayDesc(SelectSeq(docs, LAMBDA d : IsoDay(d.timestamp.s) > recent), IsoDay(T2))

\* df.select_dtypes(include=['float64', 'int64']): the columns of
\* pd.DataFrame(items) that hold numbers only (a document without the column
\* leaves a NaN in it).
NumericColumns(items) ==
    {c \in UNION {DOMAIN items[i] : i \in 1..Len(items)} :
        /\ \A i \in 1..Len(items) : c \in DOMAIN items[i] => items[i][c].t \in {"num", "nan"}
        /\ \E i \in 1..Len(items) : c \in DOMAIN items[i] /\ items[i][c].t = "num"}

\* anomaly_model.predict(features) raises unless the features are InputDim wide.
PredictFails(items) == Cardinality(NumericColumns(items)) # InputDim

RECURSIVE Flagged(_, _)
\* df[predictions > 0.5]: the documents whose score is above the threshold.
Flagged(items, sc) ==
    IF items = <<>> THEN <<>>
    ELSE (IF Head(sc) > Threshold THEN <<Head(items)>> ELSE <<>>)
            \o Flagged(Tail(items), Tail(sc))

\* The handler s given request r, the scores sc the classifier would give,
\* and the documents of the container when the query runs.
Get(s, r, sc, docs) ==
    IF ~r.jwt
    THEN Returned([s EXCEPT !.req = r],
                  Response(401, "Missing Authorization Header", 0, {}, <<>>), "jwt")
    ELSE
    LET items == QueryRecent(docs, r.now - RecentDays)
        predictions == SubSeq(sc, 1, Len(items))
    IN  IF items = <<>>
        THEN Returned([s EXCEPT !.req = r], Response(200, "", 0, {}, <<>>), "empty")
        ELSE IF PredictFails(items)
        THEN Returned([s EXCEPT !.req = r, !.items = items],
                      Response(500, "ValueError: incompatible shape", 0, {}, <<>>), "predict")
        ELSE Returned([s EXCEPT !.req = r, !.items = items, !.predictions = predictions],
                      Response(200, "", 0, {}, Flagged(items, predictions)), "flagged")

----------------------------------------------------------------------------
\* The state machine.

Init ==
    /\ container = <<>>
    /\ uploads = {}
    /\ h = [t \in Handlers |-> Idle]

\* The rows that the handlers in flight have yet to pass to the loop.
RECURSIVE Pending(_)
Pending(n) ==
    IF n = 0 THEN 0
    ELSE Pending(n - 1)
            + (IF InFlight(h[n]) THEN Len(h[n].req.content.rows) - h[n].k ELSE 0)

\* The bounds of the model leave room for request r: a file name is free and
\* the container can take its rows.
Room(r) ==
    Saves(r) =>
        /\ TempNames \ uploads # {}
        /\ Len(container) + Pending(MaxHandlers) + Len(r.content.rows) <= MaxDocs

\* A client posts a file to /data/upload: lines 106-119.
Upload(t, r) ==
    /\ FreeWorker(t)
    /\ Room(r)
    /\ LET o == Enter(Idle, r, uploads)
       IN  /\ h' = [h EXCEPT ![t] = o.h]
           /\ uploads' = o.uploads
    /\ UNCHANGED container

\* The client of an upload answered 200, during which no other handler
\* stored a document, posts the same upload again.
Resubmit(t) ==
    /\ h[t].pc = "done"
    /\ h[t].req.op = "upload"
    /\ h[t].resp.status = 200
    /\ h[t].quiet
    /\ Room(h[t].req)
    /\ LET o == Enter([Idle EXCEPT !.again = TRUE, !.base = container], h[t].req, uploads)
       IN  /\ h' = [h EXCEPT ![t] = o.h]
           /\ uploads' = o.uploads
    /\ UNCHANGED container

\* Lines 122-127.
ReadCsv(t) ==
    /\ h[t].pc = "saved"
    /\ h' = [h EXCEPT ![t] = Load(@)]
    /\ UNCHANGED <<container, uploads>>

\* Lines 130-134.
Spark(t, inferEmpty) ==
    /\ h[t].pc = "validated"
    /\ h' = [h EXCEPT ![t] = Transform(@, inferEmpty)]
    /\ UNCHANGED <<container, uploads>>

\* Another handler when one stores a document: a run that is in its loop,
\* has stored its batch, or is a second run, is no longer quiet.
Disturbed(s) ==
    IF s.pc = "sink" \/ s.stage = "stored" \/ s.again
    THEN [s EXCEPT !.quiet = FALSE, !.base = <<>>]
    ELSE s

\* Line 135, one call: it stores the row, or raises.
Write(t, ok) ==
    /\ h[t].pc = "sink"
    /\ h[t].k < Len(Out(h[t]))
    /\ IF ok
       THEN /\ container' = UpsertItem(container, Out(h[t])[h[t].k + 1])
            /\ h' = [u \in Handlers |->
                        IF u = t THEN [h[t] EXCEPT !.k = @ + 1] ELSE Disturbed(h[u])]
       ELSE /\ h' = [h EXCEPT ![t] = Raised(@)]
            /\ UNCHANGED container
    /\ UNCHANGED uploads

\* Lines 138-141: the loop is over, os.remove(filepath) and the 200.
Remove(t) ==
    /\ h[t].pc = "sink"
    /\ h[t].k = Len(Out(h[t]))
    /\ uploads' = uploads \ {h[t].file}
    /\ h' = [h EXCEPT ![t] =
                Returned(@, Response(200, "", RecordCount(@.req.content.rows), {}, <<>>),
                         "stored")]
    /\ UNCHANGED container

\* A client asks /analytics/anomalies.  The handler reads the container
\* once, in its query.
Anomalies(t, r, sc) ==
    /\ FreeWorker(t)
    /\ h' = [h EXCEPT ![t] = Get(Idle, r, sc, container)]
    /\ UNCHANGED <<container, uploads>>

\* The response is sent and the worker is free.
Return(t) ==
    /\ h[t].pc = "done"
    /\ h' = [h EXCEPT ![t] = Idle]
    /\ UNCHANGED <<container, uploads>>

Next ==
    \E t \in Handlers :
        \/ \E r \in UploadRequests : Upload(t, r)
        \/ Resubmit(t)
        \/ ReadCsv(t)
        \/ \E b \in BOOLEAN : Spark(t, b)
        \/ \E ok \in BOOLEAN : Write(t, ok)
        \/ Remove(t)
        \/ \E r \in AnomalyRequests : \E sc \in Scores : Anomalies(t, r, sc)
        \/ Return(t)

Spec == Init /\ [][Next]_vars

----------------------------------------------------------------------------
\* Properties.

\* The name's last four characters are ".csv".
NameIsCsv(name) ==
    /\ Len(name) >= 4
    /\ name[Len(name) - 3] = "."
    /\ name[Len(name) - 2] = "c"
    /\ name[Len(name) - 1] = "s"
    /\ name[Len(name)] = "v"

\* The rows of the file handler t was posted.
Batch(t) == h[t].req.content.rows

\* Handler t answers an upload that got past the token, the file and the
\* name checks, and whose file holds a table.
ReadBatch(t) == h[t].req.op = "upload" /\ Saves(h[t].req) /\ ~h[t].req.content.empty

\* Handler t has answered its upload with the status.
Answered(t, status) ==
    h[t].req.op = "upload" /\ h[t].pc = "done" /\ h[t].resp.status = status

\* How many documents of the container are the row.
Stored(row) == Cardinality({d \in 1..Len(container) : container[d] = row})

\* How many rows of the sequence are the row.
Times(rows, row) == Cardinality({i \in 1..Len(rows) : rows[i] = row})

\* The four field constraints of a Record (spec section 3), age in tenths.
\* A record of a file with no age column is not held against them: the
\* schema leaves age optional.
Conforms(d) ==
    /\ RequiredFields \subseteq DOMAIN d
    /\ DOMAIN d \subseteq SchemaFields
    /\ d.patient_id.t = "str" /\ d.patient_id.s # ""
    /\ "age" \in DOMAIN d
          => /\ d.age.t = "num" /\ d.age.n % 10 = 0
             /\ AgeMin * 10 <= d.age.n /\ d.age.n <= AgeMax * 10
    /\ d.disease.t = "str" /\ d.disease.s # ""
    /\ d.timestamp.t = "str" /\ IsoDay(d.timestamp.s) >= 0

\* C1: every record that uploads have written to the Sink, that is, every
\* document of the store, satisfies the four field constraints (patient_id
\* and disease non-empty text, age an integer in [0,120], timestamp
\* parseable).
C1_SinkRecordsConform ==
    \A i \in 1..Len(container) : Conforms(container[i])

\* C2: an upload with no file, or with a file whose name does not end in
\* .csv, is answered 400 at once: it saves no file, validates no row and
\* makes no Sink call, so that it leaves the store as it was.
C2_RejectedBeforeProcessing ==
    \A t \in Handlers :
        (/\ h[t].req.op = "upload"
         /\ h[t].req.jwt
         /\ (~h[t].req.hasFile \/ ~NameIsCsv(h[t].req.filename)))
            => /\ h[t].pc = "done"
               /\ h[t].resp.status = 400
               /\ h[t].stage \in {"nofile", "badname"}
               /\ h[t].resp.errors = {}
               /\ h[t].file = 0
               /\ h[t].k = 0

\* C2 witness: an upload of a file named d.txt, with a row in it, answered while the store holds documents.
C2_Witness ==
    \E t \in Handlers :
        /\ h[t].req.op = "upload" /\ h[t].req.jwt /\ h[t].req.hasFile
        /\ h[t].req.filename = <<"d", ".", "t", "x", "t">>
        /\ Batch(t) # <<>>
        /\ h[t].resp.status = 400
        /\ container # <<>>

\* The batch less its row k.
Without(rows, k) == SubSeq(rows, 1, k - 1) \o SubSeq(rows, k + 1, Len(rows))

\* Exactly one row of the batch handler t read, row k, fails validation.
OneInvalidRow(t, k) == ReadBatch(t) /\ ValidationErrors(Batch(t)) = {k}

\* C3 as claimed: with one invalid row, at index k, the other N-1 rows are
\* accepted and stored, and one validation error is reported at index k.
C3_OtherRowsStored ==
    \A t \in Handlers : \A k \in 1..MaxRows :
        (OneInvalidRow(t, k) /\ h[t].pc = "done")
            => /\ h[t].resp.errors = {k}
               /\ Calls(h[t]) = Without(Batch(t), k)
               /\ \A i \in 1..Len(Batch(t)) : i # k => Stored(Batch(t)[i]) >= 1

\* C3 amended: with one invalid row, at index k, the upload is answered 400
\* "Data validation failed" naming index k, and none of the N rows is stored:
\* the handler stops at schema.load and makes no Sink call.
C3_InvalidRowRejectsBatch ==
    \A t \in Handlers : \A k \in 1..MaxRows :
        OneInvalidRow(t, k)
            => /\ h[t].pc \in {"saved", "done"}
               /\ h[t].k = 0
               /\ h[t].pc = "done"
                     => /\ h[t].resp.status = 400
                        /\ h[t].resp.error = "Data validation failed"
                        /\ h[t].resp.errors = {k}
                        /\ h[t].stage = "validate"

\* C3 witness: an answered batch of two rows whose first row is invalid and whose second is valid.
C3_Witness ==
    \E t \in Handlers :
        /\ OneInvalidRow(t, 1)
        /\ Len(Batch(t)) = 2
        /\ RowErrors(Batch(t)[2]) = {}
        /\ h[t].resp.status = 400
        /\ Stored(Batch(t)[2]) = 0

\* The batch of handler t holds two rows with one patient_id, and the upload
\* returned 200.
StoredWithDuplicate(t) ==
    /\ ReadBatch(t)
    /\ Answered(t, 200)
    /\ \E i, j \in 1..Len(Batch(t)) : i < j /\ Batch(t)[i].patient_id = Batch(t)[j].patient_id

\* The row of patient p that the dedup policy of spec section 4.2 keeps: the
\* latest timestamp, the last occurrence among equals.
Winner(rows, p) ==
    CHOOSE j \in 1..Len(rows) :
        /\ rows[j].patient_id = p
        /\ \A i \in 1..Len(rows) :
              rows[i].patient_id = p
                  => \/ IsoDay(rows[i].timestamp.s) < IsoDay(rows[j].timestamp.s)
                     \/ IsoDay(rows[i].timestamp.s) = IsoDay(rows[j].timestamp.s) /\ i <= j

\* C4 as claimed: of the rows that share a patient_id one Sink write is made,
\* for the row with the later timestamp (the last one among equals).
C4_LatestTimestampKept ==
    \A t \in Handlers :
        StoredWithDuplicate(t)
            => \A i \in 1..Len(Batch(t)) :
                  LET p == Batch(t)[i].patient_id
                      calls == Calls(h[t])
                  IN  /\ Cardinality({c \in 1..Len(calls) : calls[c].patient_id = p}) = 1
                      /\ \E c \in 1..Len(calls) : calls[c] = Batch(t)[Winner(Batch(t), p)]

\* C4 amended: every row of such a batch is written, one Sink write per row
\* in file order, whatever the patient_id and the timestamp, and the store
\* holds a document per row: none is retained over another.
C4_EveryRowWritten ==
    \A t \in Handlers :
        StoredWithDuplicate(t)
            => /\ Calls(h[t]) = Batch(t)
               /\ \A i \in 1..Len(Batch(t)) :
                     Stored(Batch(t)[i]) >= Times(Batch(t), Batch(t)[i])

\* C4 witness: a stored batch of two rows of one patient whose first row has the later timestamp, both in the store.
C4_Witness ==
    \E t \in Handlers :
        /\ StoredWithDuplicate(t)
        /\ Len(Batch(t)) = 2
        /\ IsoDay(Batch(t)[1].timestamp.s) > IsoDay(Batch(t)[2].timestamp.s)
        /\ Stored(Batch(t)[1]) >= 1
        /\ Stored(Batch(t)[2]) >= 1

\* C5: an upload answered 200 and run again on the store it left, answered
\* 200 again with no other handler storing meanwhile, leaves the store as
\* the first run left it.
C5_SecondRunChangesNothing ==
    \A t \in Handlers :
        (Answered(t, 200) /\ h[t].again /\ h[t].quiet) => container = h[t].base

\* C6 as claimed: when one record's write fails, the failure is reported and
\* the Sink write is still issued for every remaining record of the batch.
C6_RemainingRowsWritten ==
    \A t \in Handlers :
        (h[t].fault >= 1 /\ h[t].pc = "done")
            => /\ h[t].resp.error = "CosmosHttpResponseError"
               /\ h[t].k = Len(Out(h[t]))

\* C6 amended: when the write of record k fails, the upload is answered 500
\* with the store's error and no Sink write is issued for any later record;
\* the records before k stay written.
C6_FailureEndsBatch ==
    \A t \in Handlers :
        h[t].fault >= 1
            => /\ h[t].pc = "done"
               /\ h[t].resp.status = 500
               /\ h[t].resp.error = "CosmosHttpResponseError"
               /\ h[t].k = h[t].fault
               /\ \A i \in 1..(h[t].fault - 1) :
                     Stored(Out(h[t])[i]) >= Times(SubSeq(Out(h[t]), 1, h[t].fault - 1), Out(h[t])[i])

\* C6 witness: a batch of two rows whose first write fails: the second row is never passed and is not in the store.
C6_Witness ==
    \E t \in Handlers :
        /\ h[t].fault = 1
        /\ Len(Batch(t)) = 2
        /\ h[t].resp.status = 500
        /\ h[t].k = 1
        /\ Stored(Batch(t)[2]) = 0

\* C7: the 'records' count of a 200 response is the number of records the
\* request wrote to the Sink.
C7_RecordsIsWritten ==
    \A t \in Handlers :
        Answered(t, 200)
            => /\ h[t].resp.records = h[t].k
               /\ h[t].fault = 0

\* C7 witness: a stored batch of two rows.
C7_Witness ==
    \E t \in Handlers :
        /\ Answered(t, 200)
        /\ h[t].resp.records = 2
        /\ h[t].k = 2
        /\ Len(container) >= 2

\* C8: an upload whose .csv file is empty is answered 400.
C8_EmptyFileIs400 ==
    \A t \in Handlers :
        (h[t].req.op = "upload" /\ h[t].pc = "done" /\ Saves(h[t].req) /\ h[t].req.content.empty)
            => h[t].resp.status = 400

\* C9: the anomalies endpoint answers 200 with exactly the recent documents
\* whose score is above the threshold; with no recent document the list is
\* empty and the classifier is not called.
C9_AnomaliesAreFlagged ==
    \A t \in Handlers :
        (h[t].req.op = "anomalies" /\ h[t].req.jwt /\ h[t].pc = "done")
            => /\ h[t].resp.status = 200
               /\ IF h[t].items = <<>>
                  THEN h[t].stage = "empty" /\ h[t].resp.anomalies = <<>>
                          /\ h[t].predictions = <<>>
                  ELSE /\ Len(h[t].predictions) = Len(h[t].items)
                       /\ h[t].resp.anomalies = Flagged(h[t].items, h[t].predictions)

\* C10: the upload folder holds no file but those of the uploads still being
\* processed: an upload that has returned, by whatever exit, has left none.
C10_NoTempFileLeft ==
    uploads \subseteq {h[t].file : t \in {u \in Handlers : InFlight(h[u])}}

====
